---- MODULE Spec2Model ----
(***************************************************************************)
(* A model of server/build.go of esm-delivery: the build pipeline that     *)
(* derives a build identifier, consults the KV/artifact cache, resolves    *)
(* packages, installs, introspects, stages types, bundles and persists.    *)
(*                                                                         *)
(* Strings the code formats, splits or compares are sequences of           *)
(* one-character strings, so that concatenation, prefixes and path.Base    *)
(* are computed as the code computes them.                                 *)
(***************************************************************************)
EXTENDS Integers, Sequences, FiniteSets, TLC

VARIABLES
    pc,         \* pc[c]: position of caller c inside build
    req,        \* req[c]: the buildOptions caller c passed
    ret,        \* ret[c]: the buildResult (buildID, importMeta, single)
    err,        \* err[c]: the error build returns
    loc,        \* loc[c]: the locals of the running build
    buildLock,  \* holder of the process-wide mutex, or NoOne
    cwd,        \* the process working directory: a caller's scratch dir, or NoOne for
                \* a directory that is not (or no longer) a scratch dir
    kv,         \* the KV store: buildID -> record
    builds,     \* buildIDs whose file builds/{buildID}.js exists
    typesArea,  \* declaration entries copied under {storageDir}/types
    scratch,    \* callers whose scratch directory exists
    hist,       \* hist[c]: what the current call of c has done so far (observation)
    obs,        \* obs[c]: the stores as they were when c's call returned (observation)
    settled,    \* requests built successfully whose record and artifact are unchanged since
    calls,      \* number of build calls started
    tampers     \* number of external modifications of the stores

vars == <<pc, req, ret, err, loc, buildLock, cwd, kv, builds, typesArea, scratch,
          hist, obs, settled, calls, tampers>>

-----------------------------------------------------------------------------
(* Bounds *)

NumCallers == 2
MaxCalls == 2
MaxTamper == 1
MaxPackages == 2

Callers == 1..NumCallers
NoOne == 0

-----------------------------------------------------------------------------
(* Strings *)

AsciiOrder ==
    <<" ", ",", "-", ".", "/", "0", "1", "2", "3", "4", "5", "6", "7", "8", "9", "@", "_",
      "a", "b", "c", "d", "e", "f", "g", "h", "i", "j", "k", "l", "m", "n", "o", "p", "q",
      "r", "s", "t", "u", "v", "w", "x", "y", "z">>

Ord(c) == CHOOSE i \in DOMAIN AsciiOrder : AsciiOrder[i] = c

RECURSIVE LexLess(_, _)
LexLess(s, t) ==
    IF t = <<>> THEN FALSE
    ELSE IF s = <<>> THEN TRUE
    ELSE IF Head(s) = Head(t) THEN LexLess(Tail(s), Tail(t))
    ELSE Ord(Head(s)) < Ord(Head(t))

HasPrefix(s, pre) ==
    Len(pre) <= Len(s) /\ SubSeq(s, 1, Len(pre)) = pre

HasSuffix(s, suf) ==
    Len(suf) <= Len(s) /\ SubSeq(s, Len(s) - Len(suf) + 1, Len(s)) = suf

TrimSuffix(s, suf) ==
    IF HasSuffix(s, suf) THEN SubSeq(s, 1, Len(s) - Len(suf)) ELSE s

RECURSIVE StripSlashes(_)
StripSlashes(s) ==
    IF s # <<>> /\ s[Len(s)] = "/" THEN StripSlashes(SubSeq(s, 1, Len(s) - 1)) ELSE s

RECURSIVE LastSegment(_)
LastSegment(s) ==
    IF \E i \in DOMAIN s : s[i] = "/"
    THEN LastSegment(Tail(s))
    ELSE s

\* path.Base
Base(s) ==
    IF s = <<>> THEN <<".">>
    ELSE LET t == StripSlashes(s)
         IN  IF t = <<>> THEN <<"/">> ELSE LastSegment(t)

\* the first '/' splits s: the part after it (empty when there is none)
RECURSIVE AfterFirstSlash(_)
AfterFirstSlash(s) ==
    IF s = <<>> THEN <<>>
    ELSE IF Head(s) = "/" THEN Tail(s)
    ELSE AfterFirstSlash(Tail(s))

\* strings.Split(s, "\"")[1]: what stands between the first and the second quote
RECURSIVE UpToQuote(_)
UpToQuote(s) ==
    IF s = <<>> \/ Head(s) = "\"" THEN <<>> ELSE <<Head(s)>> \o UpToQuote(Tail(s))

RECURSIVE AfterQuote(_)
AfterQuote(s) ==
    IF s = <<>> THEN <<>>
    ELSE IF Head(s) = "\"" THEN Tail(s)
    ELSE AfterQuote(Tail(s))

SecondOfSplitByQuote(s) == UpToQuote(AfterQuote(s))

RECURSIVE JoinComma(_)
JoinComma(ss) ==
    IF ss = <<>> THEN <<>>
    ELSE IF Len(ss) = 1 THEN ss[1]
    ELSE ss[1] \o <<",">> \o JoinComma(Tail(ss))

SeqRange(s) == {s[i] : i \in DOMAIN s}

-----------------------------------------------------------------------------
(* Literals *)

sA == <<"a">>
sB == <<"b">>
sP == <<"p">>
sD == <<"d">>
sH == <<"h">>
sM == <<"m">>
V1 == <<"1">>
V2 == <<"2">>
Empty == <<>>
Es2019 == <<"e", "s", "2", "0", "1", "9">>
Es2020 == <<"e", "s", "2", "0", "2", "0">>
Latest == <<"l", "a", "t", "e", "s", "t">>
DotDevelopment == <<".", "d", "e", "v", "e", "l", "o", "p", "m", "e", "n", "t">>
DotJs == <<".", "j", "s">>
DotDts == <<".", "d", ".", "t", "s">>
IndexJs == <<"i", "n", "d", "e", "x", ".", "j", "s">>
IndexDts == <<"i", "n", "d", "e", "x", ".", "d", ".", "t", "s">>
AtTypes == <<"@", "t", "y", "p", "e", "s", "/">>

Module(n, v, s) == [name |-> n, version |-> v, submodule |-> s]
Options(ps, t, d) == [packages |-> ps, target |-> t, dev |-> d]

-----------------------------------------------------------------------------
(* Identifier derivation *)

ImportPath(m) ==
    IF m.submodule = Empty THEN m.name ELSE m.name \o <<"/">> \o m.submodule

ModuleString(m) ==
    m.name \o <<"@">> \o m.version
        \o (IF m.submodule = Empty THEN Empty ELSE <<"/">> \o m.submodule)

Less(m1, m2) == LexLess(ImportPath(m1), ImportPath(m2))

\* sort.Sort on a handful of elements is an insertion sort driven by Less:
\* elements that compare equal keep their order
RECURSIVE InsertSorted(_, _)
InsertSorted(sorted, m) ==
    IF sorted = <<>> THEN <<m>>
    ELSE IF Less(m, sorted[Len(sorted)])
         THEN InsertSorted(SubSeq(sorted, 1, Len(sorted) - 1), m) \o <<sorted[Len(sorted)]>>
         ELSE sorted \o <<m>>

RECURSIVE SortFrom(_, _)
SortFrom(sorted, rest) ==
    IF rest = <<>> THEN sorted
    ELSE SortFrom(InsertSorted(sorted, Head(rest)), Tail(rest))

SortPackages(ps) == SortFrom(<<>>, ps)

PackagesString(ps) == JoinComma([i \in DOMAIN ps |-> ModuleString(ps[i])])

BoolString(b) == IF b THEN <<"t", "r", "u", "e">> ELSE <<"f", "a", "l", "s", "e">>

\* sha1 then lower-cased base32, taken as injective: the digest stands for its input
Sha1Base32(s) == s

SingleBuildID(o) ==
    LET pkg == o.packages[1]
        f0 == IF pkg.submodule # Empty THEN pkg.submodule ELSE Base(pkg.name)
        filename == IF o.dev THEN f0 \o DotDevelopment ELSE f0
    IN  pkg.name \o <<"@">> \o pkg.version \o <<"/">> \o o.target \o <<"/">> \o filename

BundleBuildID(o) ==
    <<"bundle-">> \o
        Sha1Base32(PackagesString(SortPackages(o.packages)) \o <<" ">> \o o.target
                   \o <<" ">> \o BoolString(o.dev))

BuildID(o) ==
    IF Len(o.packages) = 1 THEN SingleBuildID(o) ELSE BundleBuildID(o)

\* the request as the rest of build sees it: bundle mode sorts packages in place
Sorted(o) ==
    IF Len(o.packages) = 1 THEN o ELSE [o EXCEPT !.packages = SortPackages(o.packages)]

-----------------------------------------------------------------------------
(* The registry, the install tree and the bundler: the build's environment *)

Err(kind) == [kind |-> kind, detail |-> <<>>]
NoErr == Err("nil")
ErrNotFound == Err("postdb: not found")
ErrKV == Err("postdb: i/o error")
ErrNoPackages == Err("no packages")
ErrRegistry == Err("npm: transport error")
ErrChdir == Err("chdir failed")
ErrYarn == Err("yarn add failed")
ErrCopyDir == Err("copy submodule failed")
ErrWriteFile == Err("write file failed")
ErrNode == Err("node peer.js failed")
ErrJSON == Err("invalid JSON")
ErrParseJSONFile == Err("parse package.json failed")
ErrNotExist == Err("file does not exist")
ErrCopyDTS == Err("copy dts failed")
ErrCreate == Err("create artifact failed")
ErrCopy == Err("write artifact failed")
ErrProbe(name) == [kind |-> "npm: transport error", detail |-> name]
ErrSentinel(name) == [kind |-> "npm: package not found", detail |-> name]
ErrEsbuild(text) == [kind |-> "esbuild", detail |-> text]

Package(name, version, main, types, typings, deps, peers) ==
    [Name |-> name, Version |-> version, Main |-> main, Types |-> types,
     Typings |-> typings, Dependencies |-> deps, PeerDependencies |-> peers]

NoPackage == Package(Empty, Empty, Empty, Empty, Empty, {}, {})

\* the packages the registry knows, one version each
Registry ==
    { Package(sA, V1, IndexJs, Empty, Empty, {}, {sP}),
      Package(sB, V1, IndexJs, IndexDts, Empty, {sD}, {sP, sD}),
      Package(sD, V1, IndexJs, Empty, Empty, {}, {}),
      Package(sP, V1, IndexJs, Empty, IndexDts, {}, {}),
      Package(sM, V1, IndexJs, Empty, Empty, {}, {}),
      Package(AtTypes \o sD, V1, Empty, IndexDts, Empty, {}, {}) }

Known(name, version) ==
    \E p \in Registry : p.Name = name /\ (version = Latest \/ p.Version = version)

Info(name, version) ==
    CHOOSE p \in Registry : p.Name = name /\ (version = Latest \/ p.Version = version)

\* descriptors found inside an installed package: node_modules/{name}/{submodule}/package.json
SubmoduleInfo(name, submodule) ==
    IF name = sA /\ submodule = sA
    THEN Package(sH, V1, Empty, IndexDts, Empty, {}, {sP})
    ELSE NoPackage

HasSubmoduleInfo(name, submodule) == SubmoduleInfo(name, submodule) # NoPackage

\* the declaration files the installed packages ship, as {name}@{version}{path}
DeclFiles ==
    { sB \o <<"@">> \o V1 \o <<"/">> \o IndexDts,
      sP \o <<"@">> \o V1 \o <<"/">> \o IndexDts,
      AtTypes \o sD \o <<"@">> \o V1 \o <<"/">> \o IndexDts,
      sA \o <<"@">> \o V1 \o <<"/">> \o sA \o <<"/">> \o IndexDts }

\* what require(importPath) exports under the module runtime
RuntimeExports(importPath) == <<"default">>

\* the names the bundler may report as unresolved
Unresolvable == {Empty, sM}

CouldNotResolve == <<"Could not resolve ", "\"">>
OtherBundlerError == <<"Unexpected token">>

\* result.Errors of one bundler run, as the texts of its messages
BundlerResults ==
    {<<>>, <<OtherBundlerError>>}
        \cup {<<CouldNotResolve \o n \o <<"\"">>, OtherBundlerError>> : n \in Unresolvable}

\* the name part of an install spec name[@version]
RECURSIVE SpecName(_)
SpecName(spec) ==
    IF \E i \in DOMAIN spec : i > 1 /\ spec[i] = "@"
    THEN IF spec[Len(spec)] = "@" THEN SubSeq(spec, 1, Len(spec) - 1)
         ELSE SpecName(SubSeq(spec, 1, Len(spec) - 1))
    ELSE spec

RECURSIVE DepClosure(_)
DepClosure(names) ==
    LET more == names \cup UNION {Info(n, Latest).Dependencies : n \in {m \in names : Known(m, Latest)}}
    IN  IF more = names THEN names ELSE DepClosure(more)

\* yarn add: every spec must name a package of the registry
Installable(specs) == \A s \in specs : Known(SpecName(s), Latest)

Installed(specs) == DepClosure({SpecName(s) : s \in specs})

-----------------------------------------------------------------------------
(* Pure helpers of build.go *)

identify(importPath) ==
    [i \in DOMAIN importPath |->
        IF importPath[i] \in {"/", "-", "@", "."} THEN "_" ELSE importPath[i]]

ensureExt(path, ext) == IF HasSuffix(path, ext) THEN path ELSE path \o ext

\* utils.CleanPath on a plain relative file name: rooted at "/"
CleanPath(path) == IF HasPrefix(path, <<"/">>) THEN path ELSE <<"/">> \o path

getTypesPath(p) ==
    LET path == IF p.Types # Empty THEN p.Types
                ELSE IF p.Typings # Empty THEN p.Typings
                ELSE IF p.Main # Empty THEN TrimSuffix(p.Main, DotJs)
                ELSE Empty
    IN  IF path # Empty
        THEN p.Name \o <<"@">> \o p.Version \o ensureExt(CleanPath(path), DotDts)
        ELSE Empty

\* copyDTS: the entry is copied when the install tree has it; a missing source is tolerated
copyDTS(area, types) == IF types \in DeclFiles THEN area \cup {types} ELSE area

Names(o) == {o.packages[i].name : i \in DOMAIN o.packages}
ImportPaths(o) == {ImportPath(o.packages[i]) : i \in DOMAIN o.packages}

\* the package that ends up under an import path: a later specifier overwrites an earlier one
LastWith(o, path) ==
    o.packages[CHOOSE i \in DOMAIN o.packages :
        /\ ImportPath(o.packages[i]) = path
        /\ \A j \in DOMAIN o.packages : ImportPath(o.packages[j]) = path => j <= i]

NeedsTypesProbe(p, pkg) ==
    p.Types = Empty /\ p.Typings = Empty /\ ~HasPrefix(pkg.name, <<"@">>)

Probed(o) ==
    {pkg.name : pkg \in {m \in SeqRange(o.packages) : NeedsTypesProbe(Info(m.name, m.version), m)}}

\* lines 110-142 when every registry call answers
ResolvedMeta(o) ==
    [path \in ImportPaths(o) |->
        LET pkg == LastWith(o, path)
        IN  [pkg |-> Info(pkg.name, pkg.version), Exports |-> <<>>, TypesPath |-> Empty]]

PeerNames(o) ==
    UNION {Info(m.name, m.version).PeerDependencies : m \in SeqRange(o.packages)}

BaseInstallList(o) ==
    {m.name \o <<"@">> \o m.version : m \in SeqRange(o.packages)}
        \cup {LET info == Info(AtTypes \o n, Latest)
              IN  info.Name \o <<"@">> \o info.Version :
                n \in {k \in Probed(o) :
                        /\ Known(AtTypes \o k, Latest)
                        /\ LET info == Info(AtTypes \o k, Latest)
                           IN  info.Types # Empty \/ info.Typings # Empty \/ info.Main # Empty}}

\* lines 146-162: a peer dependency that is neither requested nor a dependency
Independent(o, importMeta, name) ==
    /\ name \notin Names(o)
    /\ \A path \in DOMAIN importMeta : name \notin importMeta[path].pkg.Dependencies

\* lines 163-165
ClassifiedInstalls(o, importMeta, peers) == {n \in peers : Independent(o, importMeta, n)}

\* lines 166-168
ClassifiedIndependent(o, importMeta, peers) ==
    IF Len(o.packages) = 1 THEN [n \in peers |-> Latest] ELSE [n \in {} |-> Latest]

-----------------------------------------------------------------------------
(* State *)

Requests ==
    { Options(<<>>, Es2019, FALSE),
      Options(<<Module(sA, V1, Empty)>>, Es2019, FALSE),
      Options(<<Module(sA, V1, sA)>>, Es2019, FALSE),
      Options(<<Module(sB, V1, Empty)>>, Es2019, FALSE),
      Options(<<Module(sD, V1, Empty), Module(sB, V1, Empty)>>, Es2019, FALSE),
      Options(<<Module(sB, V1, sA), Module(sA, V1, Empty)>>, Es2019, FALSE) }

BuildIDs == {BuildID(o) : o \in {r \in Requests : Len(r.packages) > 0}}

NoRequest == Options(<<>>, Empty, FALSE)
NoMeta == <<>>
NoResult == [buildID |-> Empty, importMeta |-> NoMeta, single |-> FALSE]

\* KV records: the importMeta field holds bytes
Encode(importMeta) == <<"json", importMeta>>
Garbage == <<"garbage">>
Decodes(bytes) == bytes[1] = "json"
Decode(bytes) == bytes[2]

NoRecord == [tags |-> {}, importMeta |-> <<"none">>]
Record(bytes) == [tags |-> {"bundle"}, importMeta |-> bytes]

NoLoc ==
    [importMeta |-> NoMeta, installList |-> {}, independentPackages |-> <<>>,
     nodeModules |-> {}, singleIndependentSubmodule |-> NoPackage,
     externals |-> {}, missingResolved |-> {}]

Paths == {"none", "miss", "hit", "corrupt", "stale"}

\* what one call has done so far: the tools it ran, the stores it wrote, the faults it
\* met, the branch its lookup took, the text of the first error of its last bundler run
\* and the names it ran the install tool for inside the retry loop; for a call blocked
\* in Lock(), the request and result of the last build that started on a miss and
\* returned without error in the meantime
NoAhead == [req |-> NoRequest, meta |-> NoMeta]
NoHist ==
    [tools |-> {}, writes |-> {}, fault |-> FALSE, disturbed |-> FALSE,
     path |-> "none", hot |-> FALSE, fe |-> <<>>, retried |-> <<>>, ahead |-> NoAhead]
NoObs == [rec |-> NoRecord, art |-> FALSE]

InBuild ==
    {"lookup", "resolve", "workspace", "submodule", "introspect", "types", "externals",
     "bundle", "emit", "put"}

Init ==
    /\ pc = [c \in Callers |-> "idle"]
    /\ req = [c \in Callers |-> NoRequest]
    /\ ret = [c \in Callers |-> NoResult]
    /\ err = [c \in Callers |-> NoErr]
    /\ loc = [c \in Callers |-> NoLoc]
    /\ buildLock = NoOne
    /\ cwd = NoOne
    /\ kv = [id \in BuildIDs |-> NoRecord]
    /\ builds = {}
    /\ typesArea = {}
    /\ scratch = {}
    /\ hist = [c \in Callers |-> NoHist]
    /\ obs = [c \in Callers |-> NoObs]
    /\ settled = {}
    /\ calls = 0
    /\ tampers = 0

-----------------------------------------------------------------------------
(* Steps shared by the stages of build *)

Noted(h, tools, writes, fault) ==
    [h EXCEPT !.tools = @ \cup tools, !.writes = @ \cup writes, !.fault = @ \/ fault]

\* the scratch directories at a return of c: one from lines 177-185 comes after
\* ensureDir(buildDir)
Dirs(c) == IF pc[c] = "workspace" THEN scratch \cup {c} ELSE scratch

\* a return that leaves the scratch directory behind
RemoveAllSkipped(dirs, c) == dirs

\* line 175: defer os.RemoveAll(buildDir)
RemoveAll(dirs, c) == dirs \ {c}

\* the callers blocked in Lock() see a build return that began on a miss and succeeded
Overtaken(c, e, meta, h) ==
    [d \in Callers |->
        IF d = c THEN h
        ELSE IF pc[d] = "waiting" /\ e = NoErr /\ h.path = "miss" /\ "bundler" \in h.tools
        THEN [hist[d] EXCEPT !.ahead = [req |-> req[c], meta |-> meta]]
        ELSE hist[d]]

\* a return that keeps the mutex
UnlockForgotten(c) == buildLock

\* line 60: defer buildLock.Unlock()
Unlock(c) == NoOne

\* build returns: the deferred calls remove the scratch directory and unlock
Returns(c, e, meta, kv2, builds2, types2, h) ==
    LET id == ret[c].buildID
    IN  /\ pc' = [pc EXCEPT ![c] = "done"]
        /\ err' = [err EXCEPT ![c] = e]
        /\ ret' = [ret EXCEPT ![c].importMeta = meta]
        /\ loc' = [loc EXCEPT ![c] = NoLoc]
        /\ scratch' = RemoveAll(Dirs(c), c)
        /\ buildLock' = Unlock(c)
        /\ kv' = kv2
        /\ builds' = builds2
        /\ typesArea' = types2
        /\ hist' = Overtaken(c, e, meta, h)
        /\ obs' = [obs EXCEPT ![c] = [rec |-> kv2[id], art |-> id \in builds2]]
        /\ settled' = {s \in settled : kv2[s.id] = kv[s.id] /\ (s.id \in builds2) = (s.id \in builds)}
                         \cup (IF e = NoErr THEN {[req |-> req[c], id |-> id]} ELSE {})
        /\ UNCHANGED <<req, calls, tampers>>

\* line 174: the working directory once the scratch directory of c is removed
Left(c) == IF cwd = c THEN NoOne ELSE cwd

Fails(c, e, h) ==
    /\ Returns(c, e, ret[c].importMeta, kv, builds, typesArea, h)
    /\ cwd' = Left(c)

\* build goes on to the next stage; locs are the locals and scratch trees after the step
Continues(c, next, e, locs, h) ==
    /\ pc' = [pc EXCEPT ![c] = next]
    /\ err' = [err EXCEPT ![c] = e]
    /\ loc' = locs
    /\ hist' = [hist EXCEPT ![c] = h]

-----------------------------------------------------------------------------
(* build *)

\* a caller invokes build(storageDir, options) and blocks in buildLock.Lock();
\* nothing reads options before line 62, so the model draws them there.
\* Callers that are not in a call are interchangeable: the lowest-numbered one calls
Call(c) ==
    /\ pc[c] = "idle"
    /\ \A d \in Callers : d < c => pc[d] # "idle"
    /\ calls < MaxCalls
    /\ pc' = [pc EXCEPT ![c] = "waiting"]
    /\ calls' = calls + 1
    /\ UNCHANGED <<req, ret, err, loc, buildLock, cwd, kv, builds, typesArea, scratch,
                   hist, obs, settled, tampers>>

\* lines 68-84: the result as it stands once the identifier is derived
Derived(o) ==
    [buildID |-> BuildID(o), importMeta |-> NoMeta, single |-> Len(o.packages) = 1]

\* a Lock() that never blocks
CanLockAlways(c) == TRUE

\* buildLock.Lock() returns only while nobody holds the mutex
CanLock(c) == buildLock = NoOne

\* lines 59-84: take the lock, reject an empty request, derive the build identifier
\* (blocked callers are interchangeable: the lowest-numbered one gets the lock)
Acquire(c, o) ==
    /\ pc[c] = "waiting"
    /\ \A d \in Callers : d < c => pc[d] # "waiting"
    /\ CanLock(c)
    /\ IF Len(o.packages) = 0
       THEN /\ pc' = [pc EXCEPT ![c] = "done"]
            /\ err' = [err EXCEPT ![c] = ErrNoPackages]
            /\ req' = [req EXCEPT ![c] = o]
            /\ UNCHANGED <<ret, buildLock>>
       ELSE /\ pc' = [pc EXCEPT ![c] = "lookup"]
            /\ ret' = [ret EXCEPT ![c] = Derived(o)]
            /\ req' = [req EXCEPT ![c] = Sorted(o)]
            /\ buildLock' = c
            /\ UNCHANGED err
    \* what the caller saw while blocked is kept when it is about its own request
    /\ hist' = [hist EXCEPT ![c].ahead = IF @.req = Sorted(o) THEN @ ELSE NoAhead]
    /\ UNCHANGED <<loc, cwd, kv, builds, typesArea, scratch, obs, settled,
                   calls, tampers>>

LookupFaults == {"none", "get", "delete1", "stat", "delete2"}

\* a lookup that trusts the record and never looks at the artifact
StatHitAlways(id, fault) == TRUE

\* os.Stat of the artifact: err == nil || os.IsExist(err)
StatHit(id, fault) == id \in builds /\ fault # "stat"

\* lines 86-108: the cache lookup
Lookup(c, fault) ==
    LET id == ret[c].buildID
        rec == kv[id]
        found == rec # NoRecord
        decoded == Decodes(rec.importMeta)
        \* bytes that are not JSON leave ret.importMeta nil
        meta == IF decoded THEN Decode(rec.importMeta) ELSE NoMeta
        \* db.Delete of a record already deleted at line 90 answers without error
        deleted == [kv EXCEPT ![id] = NoRecord]
        kv1 == IF decoded THEN kv ELSE deleted
        h == [hist[c] EXCEPT !.hot = [req |-> req[c], id |-> id] \in settled,
                             !.fault = fault # "none",
                             !.path = IF ~found THEN "miss"
                                      ELSE IF ~decoded THEN "corrupt"
                                      ELSE IF id \in builds THEN "hit" ELSE "stale"]
        wrote == [h EXCEPT !.writes = {"delete"}]
    IN  /\ pc[c] = "lookup"
        /\ fault = "delete1" => found /\ ~decoded
        /\ fault = "stat" => found /\ id \in builds
        /\ fault = "delete2" => found /\ id \notin builds
        /\ IF fault = "get"
           THEN \* db.Get fails with an error other than ErrNotFound (lines 106-108)
                Fails(c, ErrKV, h)
           ELSE IF ~found
           THEN \* postdb.ErrNotFound: a miss
                /\ Continues(c, "resolve", ErrNotFound, loc, h)
                /\ UNCHANGED <<req, ret, buildLock, cwd, kv, builds, typesArea,
                               scratch, obs, settled, calls, tampers>>
           ELSE IF fault = "delete1"
           THEN \* lines 90-93: the record does not decode and cannot be deleted
                Fails(c, ErrKV, h)
           ELSE IF StatHit(id, fault)
           THEN \* lines 96-99
                /\ Returns(c, NoErr, meta, kv1, builds, typesArea,
                           IF decoded THEN h ELSE wrote)
                /\ cwd' = Left(c)
           ELSE IF fault = "delete2"
           THEN \* lines 101-104
                /\ Returns(c, ErrKV, meta, kv1, builds, typesArea,
                           IF decoded THEN h ELSE wrote)
                /\ cwd' = Left(c)
           ELSE /\ Continues(c, "resolve", NoErr, loc, wrote)
                /\ ret' = [ret EXCEPT ![c].importMeta = meta]
                /\ kv' = deleted
                /\ settled' = {s \in settled : s.id # id}
                /\ UNCHANGED <<req, buildLock, cwd, builds, typesArea,
                               scratch, obs, calls, tampers>>


ResolveFaults == {"none", "info", "probe"}

\* the err variable when the loop of lines 118-142 ends: the probe of the last package
\* may leave the not-found error in it
ErrAfterResolve(o) ==
    LET last == o.packages[Len(o.packages)]
    IN  IF last.name \in Probed(o) /\ ~Known(AtTypes \o last.name, Latest)
        THEN ErrSentinel(AtTypes \o last.name)
        ELSE NoErr

\* line 132: what the registry answers to the probe of @types/{name}; an injected
\* failure hits the first probe of the request
ProbeResult(o, i, fault) ==
    LET name == o.packages[i].name
        probes == {j \in DOMAIN o.packages : o.packages[j].name \in Probed(o)}
    IN  IF fault = "probe" /\ \A j \in probes : i <= j THEN ErrProbe(AtTypes \o name)
        ELSE IF Known(AtTypes \o name, Latest) THEN NoErr
        ELSE ErrSentinel(AtTypes \o name)

\* a loop to which every error of the probe is fatal
IgnoredNever(name, e) == FALSE

\* line 137: the error of the probe that the loop passes over
Ignored(name, e) == e = ErrSentinel(AtTypes \o name)

\* lines 133-139: the packages whose probe ends the build
FatalProbes(o, fault) ==
    {i \in DOMAIN o.packages :
        /\ o.packages[i].name \in Probed(o)
        /\ ProbeResult(o, i, fault) # NoErr
        /\ ~Ignored(o.packages[i].name, ProbeResult(o, i, fault))}

\* lines 110-169: registry lookups and the classification of peer dependencies
Resolve(c, fault) ==
    LET o == req[c]
        h == Noted(hist[c], {"registry"}, {}, fault # "none")
        unknown == {m \in SeqRange(o.packages) : ~Known(m.name, m.version)}
        fatal == FatalProbes(o, fault)
        importMeta == ResolvedMeta(o)
        peers == PeerNames(o)
        l == [loc[c] EXCEPT
                !.importMeta = importMeta,
                !.installList = BaseInstallList(o) \cup ClassifiedInstalls(o, importMeta, peers),
                !.independentPackages = ClassifiedIndependent(o, importMeta, peers)]
    IN  /\ pc[c] = "resolve"
        /\ fault = "probe" => unknown = {} /\ Probed(o) # {}
        /\ IF fault = "info"
           THEN Fails(c, ErrRegistry, h)
           ELSE IF unknown # {}
           THEN Fails(c, ErrSentinel((CHOOSE m \in unknown : TRUE).name), h)
           ELSE IF fatal # {}
           THEN Fails(c, ProbeResult(o, CHOOSE i \in fatal : \A j \in fatal : i <= j, fault), h)
           ELSE /\ Continues(c, "workspace", ErrAfterResolve(o), [loc EXCEPT ![c] = l], h)
                /\ UNCHANGED <<req, ret, buildLock, cwd, kv, builds, typesArea,
                               scratch, obs, settled, calls, tampers>>

WorkspaceFaults == {"none", "chdir", "yarn"}

\* yarnAdd(packages...) in the working directory: the tree after it, when it succeeds
YarnAdd(locs, dir, specs) ==
    IF dir \in Callers
    THEN [locs EXCEPT ![dir].nodeModules = @ \cup Installed(specs)]
    ELSE locs

\* lines 173-185: scratch directory, chdir, install
Workspace(c, fault) ==
    LET specs == loc[c].installList
        h == Noted(hist[c], IF fault = "chdir" THEN {} ELSE {"install"}, {}, fault # "none")
    IN  /\ pc[c] = "workspace"
        /\ IF fault = "chdir"
           THEN Fails(c, ErrChdir, h)
           ELSE IF fault = "yarn" \/ ~Installable(specs)
           THEN \* the working directory is the scratch directory, and that is removed
                /\ Returns(c, ErrYarn, ret[c].importMeta, kv, builds, typesArea, h)
                /\ cwd' = NoOne
           ELSE /\ cwd' = c
                /\ scratch' = scratch \cup {c}
                /\ Continues(c, "submodule", NoErr, YarnAdd(loc, c, specs), h)
                /\ UNCHANGED <<req, ret, buildLock, kv, builds, typesArea,
                               obs, settled, calls, tampers>>

\* line 193: the submodule has its own descriptor in the install tree
SubmoduleStaged(c) ==
    LET pkg == req[c].packages[1]
    IN  /\ ret[c].single
        /\ pkg.submodule # Empty
        /\ pkg.name \in loc[c].nodeModules
        /\ HasSubmoduleInfo(pkg.name, pkg.submodule)

\* lines 187-208: stage the submodule and take its peer dependencies
Submodule(c, fault) ==
    LET pkg == req[c].packages[1]
        p == SubmoduleInfo(pkg.name, pkg.submodule)
        old == loc[c].independentPackages
        l == [loc[c] EXCEPT
                !.nodeModules = @ \cup {identify(ImportPath(pkg))},
                !.independentPackages =
                    [n \in DOMAIN old \cup p.PeerDependencies |->
                        IF n \in p.PeerDependencies THEN Latest ELSE old[n]],
                !.singleIndependentSubmodule = p]
        h == Noted(hist[c], {}, {}, fault)
    IN  /\ pc[c] = "submodule"
        /\ fault => SubmoduleStaged(c)
        /\ IF fault
           THEN Fails(c, ErrCopyDir, h)
           ELSE /\ Continues(c, "introspect", err[c],
                             IF SubmoduleStaged(c) THEN [loc EXCEPT ![c] = l] ELSE loc, h)
                /\ UNCHANGED <<req, ret, buildLock, cwd, kv, builds, typesArea,
                               scratch, obs, settled, calls, tampers>>

IntrospectFaults == {"none", "write", "node", "json"}

\* lines 210-250: run peer.js under the module runtime and merge the exports
Introspect(c, fault) ==
    LET old == loc[c].importMeta
        l == [loc[c] EXCEPT !.importMeta =
                [path \in DOMAIN old |->
                    IF path \in ImportPaths(req[c])
                    THEN [old[path] EXCEPT !.Exports = RuntimeExports(path)]
                    ELSE old[path]]]
        h == Noted(hist[c], IF fault = "write" THEN {} ELSE {"node"}, {}, fault # "none")
    IN  /\ pc[c] = "introspect"
        /\ CASE fault = "write" -> Fails(c, ErrWriteFile, h)
             [] fault = "node" -> Fails(c, ErrNode, h)
             [] fault = "json" -> Fails(c, ErrJSON, h)
             [] OTHER ->
                    /\ Continues(c, "types", NoErr, [loc EXCEPT ![c] = l], h)
                    /\ UNCHANGED <<req, ret, buildLock, cwd, kv, builds, typesArea,
                                   scratch, obs, settled, calls, tampers>>


\* lines 254 and 257-274: the declaration entry of one requested package
TypesFor(pkg, meta, l) ==
    LET sub == l.singleIndependentSubmodule
        subTypes == getTypesPath(sub)
        first ==
            IF sub # NoPackage
            THEN IF subTypes # Empty
                 THEN meta.pkg.Name \o <<"@">> \o meta.pkg.Version \o <<"/">>
                          \o pkg.submodule \o <<"/">> \o AfterFirstSlash(subTypes)
                 ELSE Empty
            ELSE IF NeedsTypesProbe(meta.pkg, pkg) /\ (AtTypes \o pkg.name) \in l.nodeModules
                 THEN getTypesPath(Info(AtTypes \o pkg.name, Latest))
                 ELSE Empty
    IN  IF first = Empty THEN getTypesPath(meta.pkg) ELSE first

\* a loop that stages types for every package
StagesTypesAlways(pkg, l) == TRUE

\* line 254: the packages the loop stages types for
StagesTypes(pkg, l) == pkg.submodule = Empty \/ l.singleIndependentSubmodule # NoPackage

\* lines 275-281 for one package: copy the declarations, then record the path
StageOne(pkg, types, staged) ==
    [meta |-> [staged.meta EXCEPT ![ImportPath(pkg)].TypesPath = <<"/">> \o types],
     area |-> copyDTS(staged.area, types)]

\* lines 253-283 over the first n packages
RECURSIVE StagedUpTo(_, _, _, _)
StagedUpTo(o, l, area, n) ==
    IF n = 0 THEN [meta |-> l.importMeta, area |-> area]
    ELSE LET prev == StagedUpTo(o, l, area, n - 1)
             pkg == o.packages[n]
             types == TypesFor(pkg, prev.meta[ImportPath(pkg)], l)
         IN  IF StagesTypes(pkg, l) /\ types # Empty
             THEN StageOne(pkg, types, prev)
             ELSE prev

TypeFaults == {"none", "parse", "copy"}

\* lines 252-284: type staging; a failure at package failAt leaves the earlier copies
TypeStaging(c, failAt, fault) ==
    LET o == req[c]
        l == loc[c]
        n == IF fault = "none" THEN Len(o.packages) ELSE failAt - 1
        staged == StagedUpTo(o, l, typesArea, n)
        pkg == o.packages[failAt]
        copies == \E i \in 1..n :
                    /\ StagesTypes(o.packages[i], l)
                    /\ TypesFor(o.packages[i], l.importMeta[ImportPath(o.packages[i])], l) # Empty
        h == Noted(hist[c], {}, IF copies THEN {"types"} ELSE {}, fault # "none")
    IN  /\ pc[c] = "types"
        /\ fault = "none" <=> failAt = 0
        /\ fault = "parse" =>
              /\ failAt \in DOMAIN o.packages
              /\ StagesTypes(pkg, l)
              /\ l.singleIndependentSubmodule = NoPackage
              /\ NeedsTypesProbe(l.importMeta[ImportPath(pkg)].pkg, pkg)
        /\ fault = "copy" =>
              /\ failAt \in DOMAIN o.packages
              /\ StagesTypes(pkg, l)
              /\ TypesFor(pkg, l.importMeta[ImportPath(pkg)], l) # Empty
        /\ IF fault = "none"
           THEN /\ Continues(c, "externals", err[c],
                             [loc EXCEPT ![c].importMeta = staged.meta], h)
                /\ typesArea' = staged.area
                /\ UNCHANGED <<req, ret, buildLock, cwd, kv, builds,
                               scratch, obs, settled, calls, tampers>>
           ELSE /\ Returns(c, IF fault = "parse" THEN ErrParseJSONFile ELSE ErrCopyDTS,
                           ret[c].importMeta, kv, builds, staged.area, h)
                /\ cwd' = Left(c)

ExternalsFaults == {"none", "write", "parse"}

\* an externals loop that leaves the placeholder in place
VersionKept(l, name) == l.independentPackages[name]

\* lines 308-312: p.Version of node_modules/{name}/package.json
VersionRead(l, name) == Info(name, Latest).Version

\* lines 286-315: write bundle.js and read the installed version of every external
Externals(c, fault) ==
    LET l == loc[c]
        names == DOMAIN l.independentPackages
        missing == names \ l.nodeModules
        l2 == [l EXCEPT !.independentPackages = [n \in names |-> VersionRead(l, n)],
                        !.externals = names]
        h == Noted(hist[c], {}, {}, fault # "none")
    IN  /\ pc[c] = "externals"
        /\ fault = "parse" => names # {}
        /\ CASE fault = "write" -> Fails(c, ErrWriteFile, h)
             [] fault = "parse" -> Fails(c, ErrParseJSONFile, h)
             [] OTHER ->
                    IF missing # {}
                    THEN Fails(c, ErrNotExist, h)
                    ELSE /\ Continues(c, "bundle", NoErr, [loc EXCEPT ![c] = l2], h)
                         /\ UNCHANGED <<req, ret, buildLock, cwd, kv, builds, typesArea,
                                        scratch, obs, settled, calls, tampers>>

\* line 339
MissingModule(errors) == SecondOfSplitByQuote(errors[1])

\* a retry loop that does not look into missingResolved
RetriesSeenToo(l, errors) ==
    /\ Len(errors) > 0
    /\ HasPrefix(errors[1], CouldNotResolve)
    /\ MissingModule(errors) # Empty

\* lines 336-342: the bundler's first error names a module the loop has not installed yet
Retries(l, errors) ==
    /\ Len(errors) > 0
    /\ HasPrefix(errors[1], CouldNotResolve)
    /\ MissingModule(errors) # Empty
    /\ MissingModule(errors) \notin l.missingResolved

\* lines 317-354: one run of the bundler, and the install of a module it could not resolve
Bundle(c, errors, yarnFails) ==
    LET l == loc[c]
        retry == Retries(l, errors)
        missing == MissingModule(errors)
        h == [Noted(hist[c], IF retry THEN {"bundler", "install"} ELSE {"bundler"}, {},
                    yarnFails)
                EXCEPT !.fe = IF Len(errors) = 0 THEN <<>> ELSE errors[1],
                       !.retried = IF retry THEN Append(@, missing) ELSE @]
    IN  /\ pc[c] = "bundle"
        /\ yarnFails => retry
        /\ IF Len(errors) = 0
           THEN /\ Continues(c, "emit", err[c], loc, h)
                /\ UNCHANGED <<req, ret, buildLock, cwd, kv, builds, typesArea,
                               scratch, obs, settled, calls, tampers>>
           ELSE IF retry
           THEN IF yarnFails \/ ~Installable({missing})
                THEN Fails(c, ErrYarn, h)
                ELSE /\ Continues(c, "bundle", NoErr,
                                  YarnAdd([loc EXCEPT ![c].missingResolved = @ \cup {missing}],
                                          cwd, {missing}), h)
                     /\ UNCHANGED <<req, ret, buildLock, cwd, kv, builds, typesArea,
                                    scratch, obs, settled, calls, tampers>>
           ELSE Fails(c, ErrEsbuild(errors[1]), h)

EmitFaults == {"none", "create", "copy"}

\* an artifact written somewhere else than builds/{buildID}.js
WrittenElsewhere(id, fault) == builds

\* lines 385-396: the builds area after os.Create and io.Copy
Written(id, fault) == IF fault = "create" THEN builds ELSE builds \cup {id}

\* lines 358-396: assemble the artifact and write builds/{buildID}.js
Emit(c, fault) ==
    LET id == ret[c].buildID
        h == Noted(hist[c], {}, IF fault = "create" THEN {} ELSE {"builds"}, fault # "none")
    IN  /\ pc[c] = "emit"
        /\ CASE fault = "create" -> Fails(c, ErrCreate, h)
             [] fault = "copy" ->
                    /\ Returns(c, ErrCopy, ret[c].importMeta, kv, Written(id, fault),
                               typesArea, h)
                    /\ cwd' = Left(c)
             [] OTHER ->
                    /\ Continues(c, "put", NoErr, loc, h)
                    /\ builds' = Written(id, fault)
                    /\ settled' = {s \in settled : s.id # id}
                    /\ UNCHANGED <<req, ret, buildLock, cwd, kv, typesArea,
                                   scratch, obs, calls, tampers>>

\* db.Put: the store after the call; its result is not looked at
Stored(id, importMeta, ok) ==
    IF ok THEN [kv EXCEPT ![id] = Record(Encode(importMeta))] ELSE kv

\* a return after db.Put that always reports a failure
ErrAfterPutAlways(c, ok) == ErrKV

\* line 407: err is still what io.Copy left at line 393, whatever db.Put answered
ErrAfterPut(c, ok) == err[c]

\* lines 398-407: write the KV record and return the importMeta
Put(c, ok) ==
    LET id == ret[c].buildID
        importMeta == loc[c].importMeta
        h == Noted(hist[c], {}, IF ok THEN {"kv"} ELSE {}, ~ok)
    IN  /\ pc[c] = "put"
        /\ Returns(c, ErrAfterPut(c, ok), importMeta, Stored(id, importMeta, ok), builds,
                   typesArea, h)
        /\ cwd' = Left(c)

\* the caller takes the result
Return(c) ==
    /\ pc[c] = "done"
    /\ pc' = [pc EXCEPT ![c] = "idle"]
    /\ req' = [req EXCEPT ![c] = NoRequest]
    /\ ret' = [ret EXCEPT ![c] = NoResult]
    /\ err' = [err EXCEPT ![c] = NoErr]
    /\ hist' = [hist EXCEPT ![c] = NoHist]
    /\ obs' = [obs EXCEPT ![c] = NoObs]
    /\ UNCHANGED <<loc, buildLock, cwd, kv, builds, typesArea, scratch, settled,
                   calls, tampers>>

-----------------------------------------------------------------------------
(* The stores are also within reach of whatever else runs on the host *)

Disturbed ==
    [c \in Callers |-> IF pc[c] \in InBuild THEN [hist[c] EXCEPT !.disturbed = TRUE] ELSE hist[c]]

\* lines 110-354 neither read nor write the record store or builds/: a change to these
\* stores made while a build is there is the same change made just before line 358;
\* one made between Lock() and db.Get is the same change made just before Lock()
AwayFromStores ==
    \E c \in Callers :
        pc[c] \in {"lookup", "resolve", "workspace", "submodule", "introspect", "types",
                   "externals", "bundle"}

CorruptRecord(id) ==
    /\ tampers < MaxTamper
    /\ ~AwayFromStores
    /\ kv[id] # NoRecord
    /\ kv[id] # Record(Garbage)
    /\ kv' = [kv EXCEPT ![id] = Record(Garbage)]
    /\ settled' = {s \in settled : s.id # id}
    /\ tampers' = tampers + 1
    /\ hist' = Disturbed
    /\ UNCHANGED <<pc, req, ret, err, loc, buildLock, cwd, builds, typesArea, scratch,
                   obs, calls>>

RemoveArtifact(id) ==
    /\ tampers < MaxTamper
    /\ ~AwayFromStores
    /\ id \in builds
    /\ builds' = builds \ {id}
    /\ settled' = {s \in settled : s.id # id}
    /\ tampers' = tampers + 1
    /\ hist' = Disturbed
    /\ UNCHANGED <<pc, req, ret, err, loc, buildLock, cwd, kv, typesArea, scratch,
                   obs, calls>>

-----------------------------------------------------------------------------
(* Specification *)

\* a caller that has its result takes it before anything else moves: Return touches
\* only that caller's own result, so the order changes nothing another step reads
Returning == \E c \in Callers : pc[c] = "done"

Next ==
    \/ \E c \in Callers : ~Returning /\ Call(c)
    \/ \E c \in Callers, o \in Requests : ~Returning /\ Acquire(c, o)
    \/ \E c \in Callers, f \in LookupFaults : ~Returning /\ Lookup(c, f)
    \/ \E c \in Callers, f \in ResolveFaults : ~Returning /\ Resolve(c, f)
    \/ \E c \in Callers, f \in WorkspaceFaults : ~Returning /\ Workspace(c, f)
    \/ \E c \in Callers, f \in BOOLEAN : ~Returning /\ Submodule(c, f)
    \/ \E c \in Callers, f \in IntrospectFaults : ~Returning /\ Introspect(c, f)
    \/ \E c \in Callers, i \in 0..MaxPackages, f \in TypeFaults :
            ~Returning /\ TypeStaging(c, i, f)
    \/ \E c \in Callers, f \in ExternalsFaults : ~Returning /\ Externals(c, f)
    \/ \E c \in Callers, es \in BundlerResults, f \in BOOLEAN :
            ~Returning /\ Bundle(c, es, f)
    \/ \E c \in Callers, f \in EmitFaults : ~Returning /\ Emit(c, f)
    \/ \E c \in Callers, ok \in BOOLEAN : ~Returning /\ Put(c, ok)
    \/ \E c \in Callers : Return(c)
    \/ \E id \in BuildIDs : ~Returning /\ CorruptRecord(id)
    \/ \E id \in BuildIDs : ~Returning /\ RemoveArtifact(id)

Spec == Init /\ [][Next]_vars

\* the next statement of a build that holds the lock: every external call returns
Proceeds(c) ==
    /\ ~Returning
    /\ \/ \E f \in LookupFaults : Lookup(c, f)
       \/ \E f \in ResolveFaults : Resolve(c, f)
       \/ \E f \in WorkspaceFaults : Workspace(c, f)
       \/ \E f \in BOOLEAN : Submodule(c, f)
       \/ \E f \in IntrospectFaults : Introspect(c, f)
       \/ \E i \in 0..MaxPackages, f \in TypeFaults : TypeStaging(c, i, f)
       \/ \E f \in ExternalsFaults : Externals(c, f)
       \/ \E es \in BundlerResults, f \in BOOLEAN : Bundle(c, es, f)
       \/ \E f \in EmitFaults : Emit(c, f)
       \/ \E ok \in BOOLEAN : Put(c, ok)

\* Lock() returns for caller c
Enters(c) == ~Returning /\ \E o \in Requests : Acquire(c, o)

\* builds under a scheduler that keeps running the goroutine that holds the lock (one
\* at most can take a step of build or take its result) and a mutex that is fair to
\* the callers blocked in it
SpecLive ==
    /\ Init /\ [][Next]_vars
    /\ WF_vars(\E c \in Callers : Proceeds(c))
    /\ WF_vars(\E c \in Callers : Return(c))
    /\ \A c \in Callers : SF_vars(Enters(c))

-----------------------------------------------------------------------------
(* Identifier derivation on its own: lines 68-84 applied to drawn requests *)

IdModules == {Module(n, v, sub) : n \in {sA, sB}, v \in {V1, V2}, sub \in {Empty, sA}}

\* requests of 1..MaxPackages pairwise different specifiers
IdPackages ==
    UNION {{ps \in [1..n -> IdModules] : \A i, j \in 1..n : i # j => ps[i] # ps[j]} :
            n \in 1..MaxPackages}

IdRequests == {Options(ps, t, d) : ps \in IdPackages, t \in {Es2019, Es2020}, d \in BOOLEAN}

InitId ==
    /\ pc = [c \in Callers |-> "derive"]
    /\ req \in [Callers -> IdRequests]
    /\ ret = [c \in Callers |-> NoResult]
    /\ err = [c \in Callers |-> NoErr]
    /\ loc = [c \in Callers |-> NoLoc]
    /\ buildLock = NoOne
    /\ cwd = NoOne
    /\ kv = [id \in BuildIDs |-> NoRecord]
    /\ builds = {}
    /\ typesArea = {}
    /\ scratch = {}
    /\ hist = [c \in Callers |-> NoHist]
    /\ obs = [c \in Callers |-> NoObs]
    /\ settled = {}
    /\ calls = 0
    /\ tampers = 0

Derive(c) ==
    /\ pc[c] = "derive"
    /\ pc' = [pc EXCEPT ![c] = "derived"]
    /\ ret' = [ret EXCEPT ![c] = Derived(req[c])]
    /\ req' = [req EXCEPT ![c] = Sorted(req[c])]
    /\ UNCHANGED <<err, loc, buildLock, cwd, kv, builds, typesArea, scratch, hist, obs,
                   settled, calls, tampers>>

NextId == \E c \in Callers : Derive(c)

SpecId == InitId /\ [][NextId]_vars

-----------------------------------------------------------------------------
(* Properties *)

Idle == \A c \in Callers : pc[c] \notin InBuild
Rebuilt == {"registry", "install", "node", "bundler"}
Returned(c) == pc[c] = "done" /\ ret[c].buildID # Empty

\* C1: at most one caller is between acquiring buildLock and returning, whatever the
\* stage (lookup, workspace, install/introspect/bundle, artifact and KV writes).
C1_OneBuildAtATime ==
    /\ Cardinality({c \in Callers : pc[c] \in InBuild}) <= 1
    /\ \A c \in Callers : pc[c] \in InBuild => buildLock = c

C1_Witness ==
    \E c, d \in Callers : pc[c] = "bundle" /\ pc[d] = "waiting"

\* C2: once build(R) has succeeded and the record and artifact of its buildID are
\* unchanged (here: nothing outside build has touched the stores at all), a later
\* build(R) whose own store calls answer returns the recorded importMeta, runs no
\* tool and writes no store.
C2_SettledIsServedFromCache ==
    \A c \in Callers :
        (Returned(c) /\ hist[c].hot /\ ~hist[c].fault /\ tampers = 0) =>
            /\ err[c] = NoErr
            /\ hist[c].tools = {}
            /\ hist[c].writes = {}
            /\ obs[c].rec # NoRecord
            /\ Decodes(obs[c].rec.importMeta)
            /\ ret[c].importMeta = Decode(obs[c].rec.importMeta)

\* C3: whenever build returns without error, the KV store holds a record under the
\* returned buildID and builds/{buildID}.js exists (already so when nothing outside
\* build touches the stores).
C3_SuccessIsStored ==
    \A c \in Callers :
        (Returned(c) /\ err[c] = NoErr /\ tampers = 0) =>
            (obs[c].rec # NoRecord /\ obs[c].art)

\* C4: with no build in progress and no external modification, a buildID has a KV
\* record if and only if its artifact file exists.
C4_RecordIffArtifact ==
    (Idle /\ tampers = 0) => \A id \in BuildIDs : (kv[id] # NoRecord) <=> (id \in builds)

\* C4 amended: with no build in progress and no external modification, a buildID that
\* has a KV record has its artifact file (the artifact may exist without a record).
C4_RecordImpliesArtifact ==
    (Idle /\ tampers = 0) => \A id \in BuildIDs : (kv[id] # NoRecord) => (id \in builds)

C4_Witness ==
    /\ Idle
    /\ tampers = 0
    /\ \E id \in BuildIDs : kv[id] # NoRecord /\ id \in builds
    /\ \E id \in BuildIDs : kv[id] = NoRecord /\ id \in builds

\* C5: when the record exists but its importMeta does not decode, build deletes the
\* record and goes through the full rebuild; it never returns success from the lookup.
C5_CorruptIsAMiss ==
    \A c \in Callers :
        (Returned(c) /\ hist[c].path = "corrupt" /\ err[c] = NoErr) =>
            /\ Rebuilt \subseteq hist[c].tools
            /\ "kv" \in hist[c].writes

\* C6: when the record exists and decodes but the artifact is absent, build deletes
\* the record, rebuilds in full and, every stage succeeding, ends with the record
\* and the artifact both present.
C6_StaleIsRebuilt ==
    \A c \in Callers :
        (Returned(c) /\ hist[c].path = "stale" /\ err[c] = NoErr
            /\ ~hist[c].fault /\ ~hist[c].disturbed) =>
            /\ Rebuilt \subseteq hist[c].tools
            /\ {"kv", "builds"} \subseteq hist[c].writes
            /\ obs[c].rec = Record(Encode(ret[c].importMeta))
            /\ obs[c].art

C6_Witness ==
    \E c \in Callers :
        /\ Returned(c) /\ hist[c].path = "stale" /\ err[c] = NoErr
        /\ ~hist[c].fault /\ ~hist[c].disturbed
        /\ obs[c].art

\* the peer dependencies that are neither requested nor a dependency of a requested package
IndependentPeers(o) ==
    {n \in PeerNames(o) :
        /\ n \notin Names(o)
        /\ \A m \in SeqRange(o.packages) : n \notin Info(m.name, m.version).Dependencies}

\* C7: without a submodule descriptor, the externals handed to the bundler are exactly
\* the peer dependencies that are neither requested nor a dependency of a requested
\* package, in single and in bundle mode.
C7_ExternalsAreTheIndependentPeers ==
    \A c \in Callers :
        (pc[c] \in {"bundle", "emit", "put"}
            /\ loc[c].singleIndependentSubmodule = NoPackage) =>
            loc[c].externals = IndependentPeers(req[c])

RECURSIVE Count(_, _)
Count(ps, m) ==
    IF ps = <<>> THEN 0 ELSE (IF Head(ps) = m THEN 1 ELSE 0) + Count(Tail(ps), m)

Permuted(ps, qs) ==
    /\ Len(ps) = Len(qs)
    /\ \A m \in SeqRange(ps) \cup SeqRange(qs) : Count(ps, m) = Count(qs, m)

\* C8: requests that differ in their packages, target or dev get different buildIDs
\* (SHA-1 taken as injective).
C8_DistinctRequestsDistinctIDs ==
    \A c, d \in Callers :
        (pc[c] = "derived" /\ pc[d] = "derived"
            /\ (~Permuted(req[c].packages, req[d].packages)
                \/ req[c].target # req[d].target \/ req[c].dev # req[d].dev)) =>
            ret[c].buildID # ret[d].buildID

\* C9: a request of more than one package and any permutation of it get the same buildID.
C9_PermutationSameID ==
    \A c, d \in Callers :
        (pc[c] = "derived" /\ pc[d] = "derived"
            /\ Len(req[c].packages) > 1
            /\ Permuted(req[c].packages, req[d].packages)
            /\ req[c].target = req[d].target /\ req[c].dev = req[d].dev) =>
            ret[c].buildID = ret[d].buildID

\* C10: in every importMeta build writes or returns after a rebuild, a non-empty
\* TypesPath names a declaration entry that the type-copy step placed in the types area.
C10_TypesPathOnlyIfCopied ==
    \A c \in Callers :
        pc[c] = "put" =>
            \A path \in DOMAIN loc[c].importMeta :
                loc[c].importMeta[path].TypesPath # Empty =>
                    Tail(loc[c].importMeta[path].TypesPath) \in typesArea

\* C11: every key of the importMeta a build call returns without error, after a rebuild
\* or from the cache, is the ImportPath() of a specifier of that call's request (here
\* with nothing outside build touching the stores).
C11_KeysAreRequestedImportPaths ==
    \A c \in Callers :
        (Returned(c) /\ err[c] = NoErr /\ tampers = 0) =>
            DOMAIN ret[c].importMeta \subseteq ImportPaths(req[c])

\* a step of caller c that runs the bundler
BundlerRuns(c) ==
    /\ pc[c] = "bundle"
    /\ pc'[c] # "bundle" \/ hist'[c] # hist[c]

\* C12: inside one build the install tool runs at most once per module name taken from
\* a first bundler error that begins with `Could not resolve "`; such an error for a
\* name already installed by the loop ends the build with the bundler's error, and so
\* does a first error of another form or with an empty name, without any install.
C12_RetryOncePerName ==
    [][\A c \in Callers :
        BundlerRuns(c) =>
            LET fe == hist'[c].fe
                name == SecondOfSplitByQuote(fe)
                before == hist[c].retried
                after == hist'[c].retried
            IN  /\ \A i, j \in DOMAIN after : after[i] = after[j] => i = j
                /\ IF fe = <<>>
                   THEN pc'[c] = "emit" /\ after = before
                   ELSE IF HasPrefix(fe, CouldNotResolve) /\ name # Empty
                            /\ name \notin SeqRange(before)
                   THEN /\ after = Append(before, name)
                        /\ \/ pc'[c] = "bundle" /\ name \in loc'[c].missingResolved
                           \/ pc'[c] = "done" /\ err'[c] = ErrYarn
                   ELSE /\ after = before
                        /\ pc'[c] = "done"
                        /\ err'[c] = ErrEsbuild(fe)]_vars

\* the bundler names, a second time, a module the loop has installed: the build is over
C12_Witness ==
    \E c \in Callers :
        /\ Returned(c)
        /\ err[c] = ErrEsbuild(hist[c].fe)
        /\ HasPrefix(hist[c].fe, CouldNotResolve)
        /\ SecondOfSplitByQuote(hist[c].fe) \in SeqRange(hist[c].retried)

\* C13: when a build that created its scratch directory returns, with a result or with
\* an error of whatever stage, that directory is gone: a scratch directory exists only
\* for a caller between line 174 and its return.
C13_ScratchRemovedOnReturn ==
    \A c \in Callers :
        pc[c] \in {"idle", "waiting", "lookup", "resolve", "workspace", "done"} =>
            c \notin scratch

\* a build that installed its packages and then failed while writing the artifact
C13_Witness ==
    \E c \in Callers :
        /\ Returned(c)
        /\ "install" \in hist[c].tools
        /\ err[c] = ErrCopy
        /\ c \notin scratch

\* C14: a build whose KV write at lines 398-404 fails returns an error: no build that
\* went through the whole rebuild and wrote its artifact returns without error unless
\* its record was stored.
C14_FailedPutIsAnError ==
    \A c \in Callers :
        (Returned(c) /\ Rebuilt \subseteq hist[c].tools /\ "builds" \in hist[c].writes
            /\ "kv" \notin hist[c].writes) =>
            err[c] # NoErr

\* C15: a build that returns an error has written no KV record: a record appears under
\* a buildID only in the last step of a build of that buildID that ran the registry
\* lookups, the install, the introspection and the bundler, wrote its artifact, and
\* returns without error.
C15_RecordOnlyOnFullSuccess ==
    [][/\ \A c \in Callers :
            (pc'[c] = "done" /\ ret'[c].buildID # Empty /\ err'[c] # NoErr) =>
                "kv" \notin hist'[c].writes
       /\ \A id \in BuildIDs :
            (kv'[id] # kv[id] /\ kv'[id] # NoRecord /\ tampers' = tampers) =>
                \E c \in Callers :
                    /\ pc[c] = "put" /\ pc'[c] = "done"
                    /\ ret[c].buildID = id
                    /\ err'[c] = NoErr
                    /\ Rebuilt \subseteq hist[c].tools
                    /\ "builds" \in hist[c].writes]_vars

\* a build that staged declarations, then failed in the bundler: files remain, no record
C15_Witness ==
    \E c \in Callers :
        /\ Returned(c)
        /\ err[c] = ErrEsbuild(OtherBundlerError)
        /\ "types" \in hist[c].writes
        /\ obs[c].rec = NoRecord

\* the requested packages whose @types probe the registry answers with not found
ProbesNotFound(o) == {n \in Probed(o) : ~Known(AtTypes \o n, Latest)}

SubmoduleTypesDir(pkg) ==
    pkg.name \o <<"@">> \o pkg.version \o <<"/">> \o pkg.submodule \o <<"/">>

\* C18: in bundle mode (more than one package) a requested specifier with a submodule
\* has an empty TypesPath from type staging on, in the importMeta the build returns
\* too, and the type staging step copies no declaration file for it.
C18_BundleSubmoduleHasNoTypes ==
    [][\A c \in Callers :
        \A i \in DOMAIN req'[c].packages :
            LET pkg == req'[c].packages[i]
            IN  (~ret'[c].single /\ pkg.submodule # Empty) =>
                    /\ pc'[c] \in {"externals", "bundle", "emit", "put"} =>
                          loc'[c].importMeta[ImportPath(pkg)].TypesPath = Empty
                    /\ (pc'[c] = "done" /\ err'[c] = NoErr /\ "bundler" \in hist'[c].tools) =>
                          ret'[c].importMeta[ImportPath(pkg)].TypesPath = Empty
                    /\ pc[c] = "types" =>
                          \A f \in typesArea' \ typesArea :
                              ~HasPrefix(f, SubmoduleTypesDir(pkg))]_vars

\* a bundle with a submodule specifier, built to the end, with types staged for the others
C18_Witness ==
    \E c \in Callers :
        /\ Returned(c) /\ err[c] = NoErr /\ "bundler" \in hist[c].tools
        /\ ~ret[c].single
        /\ \E i \in DOMAIN req[c].packages :
                /\ req[c].packages[i].submodule # Empty
                /\ ret[c].importMeta[ImportPath(req[c].packages[i])].TypesPath = Empty
        /\ \E path \in DOMAIN ret[c].importMeta : ret[c].importMeta[path].TypesPath # Empty

\* C20: two callers call build with the same request on a cold cache; the first to take
\* the lock builds and returns without error while the second is blocked. Then the
\* second (its own store calls answering, nothing outside touching the stores) is
\* served from the cache: it runs no tool and receives the importMeta the first received.
C20_SecondCallerIsServedFromCache ==
    \A c \in Callers :
        (Returned(c) /\ hist[c].ahead.req = req[c] /\ ~hist[c].fault /\ tampers = 0) =>
            /\ err[c] = NoErr
            /\ hist[c].tools = {}
            /\ ret[c].importMeta = hist[c].ahead.meta

\* C19: every external call returning and the names the bundler can report being
\* finitely many, a build that has started eventually returns, with a result or an
\* error, and has released buildLock; the lock being fair, every caller blocked in
\* Lock() eventually enters and returns.
C19_EveryCallReturns ==
    \A c \in Callers :
        /\ (pc[c] \in InBuild) ~> (pc[c] = "done" /\ buildLock # c)
        /\ (pc[c] = "waiting") ~> (pc[c] = "done")

\* a caller that was blocked while another build returned, and whose own build went
\* through the retry loop, has returned
C19_Witness ==
    \E c \in Callers :
        /\ Returned(c)
        /\ hist[c].ahead # NoAhead
        /\ hist[c].retried # <<>>
        /\ buildLock = NoOne

====
